---- MODULE Spec2Model ----
(***************************************************************************)
(* Polymarket collection scripts: the resumable price-history fetcher      *)
(* (notebooks/timeseries_analysis/fetch_prices_by_tag.py), the HTTP retry  *)
(* client http_get (three copies) and the token-id extractor               *)
(* extract_clob_token_ids (data/collect_polymarket.py).                    *)
(*                                                                         *)
(* Independent state machines share the module:                            *)
(*   SpecFetch    runs of fetch_prices_by_tag.main on one output file      *)
(*   SpecHttp     one call of http_get against an arbitrary upstream       *)
(*   SpecExtract  extract_clob_token_ids applied to a market record        *)
(*   SpecCollect  one run of collect_polymarket.main from the resolution   *)
(*                loop on                                                  *)
(*   SpecFilter   runs of filter_markets.main on one input as time passes  *)
(***************************************************************************)
EXTENDS Integers, Sequences, FiniteSets, TLC

VARIABLES
    \* ---- fetch_prices_by_tag.main ----
    markets,        \* rows of the markets JSONL file (read_jsonl)
    file,           \* lines of the output JSONL file
    fpc,            \* "idle" | "init" | "loop" | "done" | "killed" | "failed"
    ferr,           \* exception that ended the run ("" when none)
    already_done,   \* main: set returned by load_already_fetched
    work,           \* main: list of (market_id, token_id) pairs
    idx,            \* main: number of work items already processed (i)
    written,        \* main: counter
    dropped,        \* main: counter
    history,        \* main: result of the last fetch_price_history call
    lastResp,       \* fetch_price_history: resp, what http_get last handed back
    requests,       \* history: token ids requested from /prices-history in this run
    fileAtStart,    \* history: the output file as it was when this run started
    fetchedEarlier, \* history: tokens whose fetch completed in an earlier run
    \* ---- http_get ----
    hVariant,       \* which copy of http_get: "collect" | "prices" | "tagid"
    hUrl,           \* argument url
    hParams,        \* argument params
    hpc,            \* "idle" | "running" | "returned" | "raised"
    attempt,        \* loop variable (1..MAX_RETRIES)
    last_err,       \* local last_err
    hLog,           \* history: outcome of every request issued by this call
    sleeps,         \* history: argument of every time.sleep of this call (tenths of a second)
    hResult,        \* returned JSON body
    hError,         \* the RuntimeError raised on exhaustion
    \* ---- extract_clob_token_ids ----
    xMarket,        \* argument m
    xYesOnly,       \* argument yes_only
    xpc,            \* "idle" | "ready" | "done"
    xResult,        \* returned list
    \* ---- collect_polymarket.main ----
    all_rows,       \* main: the rows selected from the markets CSV
    cYesOnly,       \* PARAMS["yes_only"]
    cpc,            \* "idle" | "resolve" | "prices" | "done" | "failed"
    ci,             \* main: rows already handled by the resolution loop
    token_ids_by_key,   \* main: dict row_key -> token ids
    filtered_selected,  \* main: dict row_key -> market, in insertion order
    markets_file,   \* lines of markets.jsonl
    pm,             \* main: entries of filtered_selected done by the price loop
    pt,             \* main: tokens of the current entry done by the price loop
    price_rows,     \* main: rows collected for prices_history.jsonl
    prices_file,    \* lines of prices_history.jsonl
    cReqs,          \* history: every upstream request and every courtesy
                    \* time.sleep of the run, in order
    pricesAtStart,  \* history: prices_history.jsonl as the run found it
    resolved        \* history: for each row, what the resolver returned, the
                    \* requests it issued, and how the detail lookup failed
                    \* ("raise" | "shape" | "" when it did not)
    ,
    \* ---- filter_markets.main ----
    mMarkets,       \* main: rows of the raw markets JSONL (markets)
    now,            \* the clock, in days (datetime.now)
    mpc,            \* "idle" | "ready"
    filtered_file,  \* lines of markets_filtered.jsonl
    summary,        \* content of filter_summary.json
    nRuns,          \* history: runs so far (counted up to 2)
    lastRunAt,      \* history: clock reading of the last run
    prevRunAt,      \* history: clock reading of the run before it
    prevFile        \* history: markets_filtered.jsonl as the run before wrote it
    ,
    \* ---- fetch_markets_by_tag_id.fetch_markets ----
    max_markets,    \* fetch_markets: the argument max_markets
    tagMarkets,     \* fetch_markets: the list markets
    offset,         \* fetch_markets: offset
    tpc,            \* "idle" | "loop" | "exit" | "returned" | "raised"
    tResult,        \* what fetch_markets returned
    tLog,           \* history: the page requests (with their offset) and the
                    \* sleeps, in order
    pages           \* history: the pages received, in order

fvars == <<markets, file, fpc, ferr, already_done, work, idx, written, dropped,
           history, lastResp, requests, fileAtStart, fetchedEarlier>>
hvars == <<hVariant, hUrl, hParams, hpc, attempt, last_err, hLog, sleeps, hResult, hError>>
xvars == <<xMarket, xYesOnly, xpc, xResult>>
cvars == <<all_rows, cYesOnly, cpc, ci, token_ids_by_key, filtered_selected,
           markets_file, pm, pt, price_rows, prices_file, cReqs, pricesAtStart,
           resolved>>
mvars == <<mMarkets, now, mpc, filtered_file, summary, nRuns, lastRunAt, prevRunAt,
           prevFile>>
tvars == <<max_markets, tagMarkets, offset, tpc, tResult, tLog, pages>>
vars == <<fvars, hvars, xvars, cvars, mvars, tvars>>

-----------------------------------------------------------------------------
(* JSON values as Python sees them after json.loads.                        *)

NoneV == [k |-> "none"]
StrV(s) == [k |-> "str", s |-> s]
NumV(n) == [k |-> "num", n |-> n]
ListV(items) == [k |-> "list", items |-> items]
DictV(d) == [k |-> "dict", d |-> d]
BoolV(b) == [k |-> "bool", b |-> b]
\* a Python str given by its lexical tokens (a string that may hold JSON)
TextV(toks) == [k |-> "text", toks |-> toks]

\* dict.get(key): None when the key is missing (or its value is null)
Get(d, key) == IF key \in DOMAIN d THEN d[key] ELSE NoneV

\* Python truthiness, as used by `or`, `if v:` and `if tid:`
Truthy(v) ==
    CASE v.k = "none" -> FALSE
      [] v.k = "str"  -> v.s # ""
      [] v.k = "num"  -> v.n # 0
      [] v.k = "list" -> v.items # <<>>
      [] v.k = "dict" -> DOMAIN v.d # {}
      [] v.k = "bool" -> v.b
      [] v.k = "text" -> v.toks # <<>>
      [] OTHER        -> TRUE

\* a or b
Or(a, b) == IF Truthy(a) THEN a ELSE b

\* str(x) of a JSON scalar
Str(v) ==
    CASE v.k = "str"  -> v.s
      [] v.k = "num"  -> ToString(v.n)
      [] v.k = "none" -> "None"
      [] v.k = "bool" -> IF v.b THEN "True" ELSE "False"
      [] OTHER        -> "<obj>"

\* lexical tokens of a string holding JSON text
Tk(t) == [t |-> t]
TkStr(x) == [t |-> "str", s |-> x]
TkNum(n) == [t |-> "num", n |-> n]

\* str.strip(): leading and trailing whitespace removed
RECURSIVE LStrip(_)
LStrip(toks) ==
    IF toks # <<>> /\ Head(toks).t = "ws" THEN LStrip(Tail(toks)) ELSE toks

RECURSIVE RStrip(_)
RStrip(toks) ==
    IF toks # <<>> /\ toks[Len(toks)].t = "ws"
    THEN RStrip(SubSeq(toks, 1, Len(toks) - 1)) ELSE toks

Strip(toks) == RStrip(LStrip(toks))

RECURSIVE DropWs(_)
DropWs(toks) ==
    IF toks = <<>> THEN <<>>
    ELSE IF Head(toks).t = "ws" THEN DropWs(Tail(toks))
    ELSE <<Head(toks)>> \o DropWs(Tail(toks))

IsScalarTok(tok) == tok.t \in {"str", "num"}
ScalarOf(tok) == IF tok.t = "str" THEN StrV(tok.s) ELSE NumV(tok.n)

\* the elements of a flat JSON array body: scalar ("," scalar)*
RECURSIVE ParseElems(_)
ParseElems(toks) ==
    IF toks = <<>> \/ ~IsScalarTok(Head(toks)) THEN [ok |-> FALSE, items |-> <<>>]
    ELSE IF Len(toks) = 1 THEN [ok |-> TRUE, items |-> <<ScalarOf(Head(toks))>>]
    ELSE IF toks[2].t # "," THEN [ok |-> FALSE, items |-> <<>>]
    ELSE LET rest == ParseElems(SubSeq(toks, 3, Len(toks)))
         IN  [ok |-> rest.ok, items |-> <<ScalarOf(Head(toks))>> \o rest.items]

\* JsonLoadsArray with whitespace between the elements not accepted
JsonLoadsArrayNoWs(toks) ==
    LET inner == SubSeq(toks, 2, Len(toks) - 1)
    IN  IF Len(toks) < 2 THEN [ok |-> FALSE, items |-> <<>>]
        ELSE IF inner = <<>> THEN [ok |-> TRUE, items |-> <<>>]
        ELSE ParseElems(inner)

\* json.loads of a text that starts with "[" and ends with "]", for arrays
\* of scalars; ok = FALSE is JSONDecodeError
JsonLoadsArray(toks) ==
    LET inner == DropWs(SubSeq(toks, 2, Len(toks) - 1))
    IN  IF Len(toks) < 2 THEN [ok |-> FALSE, items |-> <<>>]
        ELSE IF inner = <<>> THEN [ok |-> TRUE, items |-> <<>>]
        ELSE ParseElems(inner)

\* json.loads(value) of a str: the parsed array, or None for anything that
\* is not a JSON array (a decode error, or a JSON value of another type)
json_loads(value) ==
    IF value.k = "text"
    THEN LET st == Strip(value.toks)
         IN  IF st # <<>> /\ st[1].t = "[" /\ st[Len(st)].t = "]"
             THEN LET parsed == JsonLoadsArray(st)
                  IN  IF parsed.ok THEN ListV(parsed.items) ELSE NoneV
             ELSE NoneV
    ELSE NoneV

\* _maybe_parse_json_list: a list value, or None
_maybe_parse_json_list(value) ==
    IF value.k = "list" THEN value
    ELSE IF value.k = "text"
    THEN LET st == Strip(value.toks)
         IN  IF st # <<>> /\ st[1].t = "[" /\ st[Len(st)].t = "]"
             THEN LET parsed == JsonLoadsArray(st)
                  IN  IF parsed.ok THEN ListV(parsed.items) ELSE NoneV
             ELSE NoneV
    ELSE NoneV

RECURSIVE SeqToSet(_)
SeqToSet(s) == IF s = <<>> THEN {} ELSE {Head(s)} \cup SeqToSet(Tail(s))

\* all sequences over S of length 0..n
RECURSIVE SeqsUpTo(_, _)
SeqsUpTo(S, n) ==
    IF n = 0 THEN {<<>>}
    ELSE LET shorter == SeqsUpTo(S, n - 1)
         IN  shorter \cup {Append(s, e) : s \in shorter, e \in S}

-----------------------------------------------------------------------------
(* Each specification runs one machine; the others stay at rest.            *)

PagesIdle ==
    /\ max_markets = 0
    /\ tagMarkets = <<>>
    /\ offset = 0
    /\ tpc = "idle"
    /\ tResult = <<>>
    /\ tLog = <<>>
    /\ pages = <<>>

HttpIdle ==
    /\ hVariant = "collect"
    /\ hUrl = ""
    /\ hParams = NoneV
    /\ hpc = "idle"
    /\ attempt = 0
    /\ last_err = NoneV
    /\ hLog = <<>>
    /\ sleeps = <<>>
    /\ hResult = NoneV
    /\ hError = NoneV

FilterIdle ==
    /\ mMarkets = <<>>
    /\ now = 0
    /\ mpc = "idle"
    /\ filtered_file = <<>>
    /\ summary = NoneV
    /\ nRuns = 0
    /\ lastRunAt = 0
    /\ prevRunAt = 0
    /\ prevFile = <<>>

CollectIdle ==
    /\ all_rows = <<>>
    /\ cYesOnly = FALSE
    /\ cpc = "idle"
    /\ ci = 0
    /\ token_ids_by_key = <<>>
    /\ filtered_selected = <<>>
    /\ markets_file = <<>>
    /\ pm = 0
    /\ pt = 0
    /\ price_rows = <<>>
    /\ prices_file = <<>>
    /\ cReqs = <<>>
    /\ pricesAtStart = <<>>
    /\ resolved = <<>>

FetchIdle ==
    /\ markets = <<>>
    /\ file = <<>>
    /\ fpc = "idle"
    /\ ferr = ""
    /\ already_done = {}
    /\ work = <<>>
    /\ idx = 0
    /\ written = 0
    /\ dropped = 0
    /\ history = <<>>
    /\ lastResp = [kind |-> "none"]
    /\ requests = <<>>
    /\ fileAtStart = <<>>
    /\ fetchedEarlier = {}

ExtractIdle ==
    /\ xMarket = <<>>
    /\ xYesOnly = FALSE
    /\ xpc = "idle"
    /\ xResult = <<>>

-----------------------------------------------------------------------------
(* fetch_prices_by_tag.py                                                   *)

DEFAULT_MIN_CANDLES == 10

\* bound: number of rows in the markets input file
MaxMarkets == 2

\* the clobTokenIds lists a market row of the input may carry
TokenLists ==
    {<<>>, <<"A">>, <<"C">>, <<"A", "A">>, <<"A", "B">>}

MarketRow(n, toks) ==
    [id |-> NumV(n),
     clobTokenIds |-> ListV([j \in 1..Len(toks) |-> StrV(toks[j])])]

\* a row whose clobTokenIds is the cut-off text '["D",' and whose tokens
\* field lists token D
MalformedRow(n) ==
    [id |-> NumV(n),
     clobTokenIds |-> TextV(<<Tk("["), TkStr("D"), Tk(",")>>),
     tokens |-> ListV(<<DictV([token_id |-> StrV("D")])>>)]

MarketRows(n) == {MarketRow(n, toks) : toks \in TokenLists} \cup {MalformedRow(n)}

\* the markets files the runs are given: row n has id n
MarketFiles ==
    UNION {{ms \in [1..len -> UNION {MarketRows(n) : n \in 1..len}] :
               \A n \in 1..len : ms[n] \in MarketRows(n)} : len \in 0..MaxMarkets}

\* a price history of n points
Hist(n) == [j \in 1..n |-> [t |-> j, p |-> 50]]

HistLens == {9, 10, 15}

\* what http_get hands back to fetch_price_history: a JSON body, or the
\* RuntimeError of retry exhaustion
PriceResponses ==
    {[kind |-> "dict", history |-> Hist(n)] : n \in HistLens}
    \cup {[kind |-> "dict_nohistory"],
          [kind |-> "list", items |-> Hist(DEFAULT_MIN_CANDLES)],
          [kind |-> "raise"]}

\* a complete line of the output file, and a line cut short by termination
\* in the middle of append_jsonl's write
RowLine(row) == [valid |-> TRUE, row |-> row]
TruncatedLine == [valid |-> FALSE]

\* extract_tokens: the ids of one item list
RECURSIVE TokenItems(_)
TokenItems(items) ==
    IF items = <<>> THEN <<>>
    ELSE LET t == Head(items)
             rest == TokenItems(Tail(items))
         IN  IF t.k = "dict"
             THEN LET tid == Or(Get(t.d, "token_id"), Get(t.d, "id"))
                  IN  IF Truthy(tid) THEN <<Str(tid)>> \o rest ELSE rest
             ELSE IF t.k = "str" /\ t.s # "" THEN <<t.s>> \o rest
             ELSE rest

\* extract_tokens(m): a str is passed through json.loads first
extract_tokens(m) ==
    LET raw0 == Or(Get(m, "clobTokenIds"), Or(Get(m, "tokens"), ListV(<<>>)))
        raw == IF raw0.k \in {"str", "text"} THEN json_loads(raw0) ELSE raw0
    IN  IF raw.k # "list" \/ raw.items = <<>> THEN <<>>
        ELSE TokenItems(raw.items)

\* load_already_fetched: json.loads of every line; an invalid line raises
LoadRaises(f) == \E j \in 1..Len(f) : ~f[j].valid

load_already_fetched(f) == {f[j].row.token_id : j \in 1..Len(f)}

\* main: mid = str(m.get("id") or m.get("conditionId") or "")
MarketId(m) == Str(Or(Get(m, "id"), Or(Get(m, "conditionId"), StrV(""))))

\* PairsOf without the `tid not in already_done` test
RECURSIVE PairsOfNoSkip(_, _, _)
PairsOfNoSkip(mid, toks, done) ==
    IF toks = <<>> THEN <<>>
    ELSE <<[market_id |-> mid, token_id |-> Head(toks)]>>
         \o PairsOfNoSkip(mid, Tail(toks), done)

\* main: the work list, tokens in already_done left out
RECURSIVE PairsOf(_, _, _)
PairsOf(mid, toks, done) ==
    IF toks = <<>> THEN <<>>
    ELSE (IF Head(toks) \notin done THEN <<[market_id |-> mid, token_id |-> Head(toks)]>>
          ELSE <<>>) \o PairsOf(mid, Tail(toks), done)

RECURSIVE BuildWork(_, _)
BuildWork(ms, done) ==
    IF ms = <<>> THEN <<>>
    ELSE PairsOf(MarketId(Head(ms)), extract_tokens(Head(ms)), done)
         \o BuildWork(Tail(ms), done)

\* fetch_price_history: resp.get("history") or []
HistoryOf(resp) == IF resp.kind = "dict" THEN resp.history ELSE <<>>

\* main: the row written for a token
MakeRow(w, h) ==
    [market_id |-> w.market_id,
     token_id  |-> w.token_id,
     n_candles |-> Len(h),
     history   |-> h]

\* TooFew with <= in place of <
TooFewOrEqual(h) == Len(h) <= DEFAULT_MIN_CANDLES

\* main: the minimum-candle test
TooFew(h) == Len(h) < DEFAULT_MIN_CANDLES

FetchInit ==
    /\ markets \in MarketFiles
    /\ file = <<>>
    /\ fpc = "init"
    /\ ferr = ""
    /\ already_done = {}
    /\ work = <<>>
    /\ idx = 0
    /\ written = 0
    /\ dropped = 0
    /\ history = <<>>
    /\ lastResp = [kind |-> "none"]
    /\ requests = <<>>
    /\ fileAtStart = <<>>
    /\ fetchedEarlier = {}
    /\ HttpIdle
    /\ ExtractIdle
    /\ CollectIdle
    /\ FilterIdle
    /\ PagesIdle

\* main, lines 159-184: a run starts on the current output file
StartRun ==
    /\ fpc \in {"init", "done", "killed", "failed"}
    /\ fetchedEarlier' = fetchedEarlier \cup
           {requests[j] : j \in 1..(IF fpc = "failed" /\ ferr # "JSONDecodeError"
                                    THEN Len(requests) - 1 ELSE Len(requests))}
    /\ fileAtStart' = file
    /\ requests' = <<>>
    /\ idx' = 0
    /\ written' = 0
    /\ dropped' = 0
    /\ history' = <<>>
    /\ lastResp' = [kind |-> "none"]
    /\ IF LoadRaises(file)
       THEN /\ fpc' = "failed"
            /\ ferr' = "JSONDecodeError"
            /\ already_done' = {}
            /\ work' = <<>>
       ELSE /\ fpc' = "loop"
            /\ ferr' = ""
            /\ already_done' = load_already_fetched(file)
            /\ work' = BuildWork(markets, already_done')
    /\ UNCHANGED <<markets, file>>
    /\ UNCHANGED <<hvars, xvars, cvars, mvars, tvars>>

\* main, lines 186-215: one iteration of the loop over work
ProcessToken(resp) ==
    /\ fpc = "loop"
    /\ idx < Len(work)
    /\ requests' = Append(requests, work[idx + 1].token_id)
    /\ lastResp' = resp
    /\ IF resp.kind = "raise"
       THEN /\ fpc' = "failed"
            /\ ferr' = "RuntimeError"
            /\ UNCHANGED <<file, idx, written, dropped, history>>
       ELSE IF resp.kind = "list"
       THEN /\ fpc' = "failed"
            /\ ferr' = "AttributeError"
            /\ UNCHANGED <<file, idx, written, dropped, history>>
       ELSE     /\ history' = HistoryOf(resp)
                /\ idx' = idx + 1
                /\ UNCHANGED <<fpc, ferr>>
                /\ IF TooFew(history')
                   THEN /\ dropped' = dropped + 1
                        /\ UNCHANGED <<file, written>>
                   ELSE /\ file' = Append(file, RowLine(MakeRow(work[idx + 1], history')))
                        /\ written' = written + 1
                        /\ UNCHANGED dropped
    /\ UNCHANGED <<markets, already_done, work, fileAtStart, fetchedEarlier>>
    /\ UNCHANGED <<hvars, xvars, cvars, mvars, tvars>>

\* main, lines 217-219: the loop is over
FinishRun ==
    /\ fpc = "loop"
    /\ idx = Len(work)
    /\ fpc' = "done"
    /\ UNCHANGED <<markets, file, ferr, already_done, work, idx, written, dropped,
                   history, lastResp, requests, fileAtStart, fetchedEarlier>>
    /\ UNCHANGED <<hvars, xvars, cvars, mvars, tvars>>

\* the process is terminated between two tokens
Kill ==
    /\ fpc = "loop"
    /\ idx < Len(work)
    /\ fpc' = "killed"
    /\ UNCHANGED <<markets, file, ferr, already_done, work, idx, written, dropped,
                   history, lastResp, requests, fileAtStart, fetchedEarlier>>
    /\ UNCHANGED <<hvars, xvars, cvars, mvars, tvars>>

\* the process is terminated inside append_jsonl's f.write: the history was
\* fetched, part of the line reached the file
KillMidWrite(resp) ==
    /\ fpc = "loop"
    /\ idx < Len(work)
    /\ resp.kind = "dict"
    /\ ~TooFew(HistoryOf(resp))
    /\ requests' = Append(requests, work[idx + 1].token_id)
    /\ history' = HistoryOf(resp)
    /\ lastResp' = resp
    /\ file' = Append(file, TruncatedLine)
    /\ fpc' = "killed"
    /\ UNCHANGED <<markets, ferr, already_done, work, idx, written, dropped,
                   fileAtStart, fetchedEarlier>>
    /\ UNCHANGED <<hvars, xvars, cvars, mvars, tvars>>

FetchNext ==
    \/ StartRun
    \/ \E resp \in PriceResponses : ProcessToken(resp)
    \/ FinishRun
    \/ Kill
    \/ \E resp \in PriceResponses : KillMidWrite(resp)

-----------------------------------------------------------------------------
(* Claims about fetch_prices_by_tag.main (checked under SpecFetch)          *)

ValidRows(f) == {j \in 1..Len(f) : f[j].valid}
RowTokens(f) == {f[j].row.token_id : j \in ValidRows(f)}

RECURSIVE FlatTokens(_)
FlatTokens(ms) ==
    IF ms = <<>> THEN <<>> ELSE extract_tokens(Head(ms)) \o FlatTokens(Tail(ms))

Count(s, e) == Cardinality({j \in 1..Len(s) : s[j] = e})

\* the output file holds rows for exactly A and B, and the markets own A, B
\* and C, each once
ScenarioABC ==
    /\ Len(fileAtStart) = 2
    /\ ValidRows(fileAtStart) = {1, 2}
    /\ RowTokens(fileAtStart) = {"A", "B"}
    /\ \A t \in {"A", "B", "C"} : Count(FlatTokens(markets), t) = 1

\* C1: a run never requests the price history of a token that had a row in
\* the output file when the run started, and appends no row for such a
\* token; started on rows for A and B with markets owning A, B and C, it
\* requests only C, and once done with C written the file holds exactly 3
\* rows with distinct token_ids.
ResumeSkip ==
    /\ \A j \in 1..Len(requests) : requests[j] \notin RowTokens(fileAtStart)
    /\ \A j \in (Len(fileAtStart) + 1)..Len(file) :
           file[j].valid => file[j].row.token_id \notin RowTokens(fileAtStart)
    /\ (ScenarioABC /\ fpc \in {"loop", "done", "killed", "failed"}) =>
           /\ \A j \in 1..Len(requests) : requests[j] = "C"
           /\ Len(requests) <= 1
           /\ (fpc = "done" /\ written = 1) =>
                  /\ Len(file) = 3
                  /\ ValidRows(file) = {1, 2, 3}
                  /\ RowTokens(file) = {"A", "B", "C"}
                  /\ file[3].row.token_id = "C"

ResumeSkipWitness ==
    /\ ScenarioABC
    /\ fpc = "done"
    /\ requests = <<"C">>
    /\ written = 1
    /\ Len(file) = 3

\* C2: no two rows of the output file have the same token_id.
NoDuplicateRows ==
    \A i, j \in ValidRows(file) :
        i # j => file[i].row.token_id # file[j].row.token_id

\* C3: a token whose price history was fetched to completion by an earlier
\* run is never requested again by a later run, and no token is requested
\* twice within one run.
NoDuplicateWork ==
    /\ \A j \in 1..Len(requests) : requests[j] \notin fetchedEarlier
    /\ \A i, j \in 1..Len(requests) : i # j => requests[i] # requests[j]

\* C4: a run started on an output file whose final line is truncated does
\* not fail: it discards that line and resumes from the complete lines.
TruncatedLastLineTolerated ==
    (/\ fpc # "init"
     /\ fileAtStart # <<>>
     /\ ~fileAtStart[Len(fileAtStart)].valid)
    => /\ ~(fpc = "failed" /\ ferr = "JSONDecodeError")
       /\ already_done = RowTokens(fileAtStart)

\* one iteration of main's loop that got a history back
TokenProcessed == fpc = "loop" /\ idx' = idx + 1

MinCandleStep ==
    TokenProcessed =>
        /\ fpc' = "loop"
        /\ IF Len(history') < DEFAULT_MIN_CANDLES
           THEN /\ file' = file
                /\ dropped' = dropped + 1
                /\ written' = written
           ELSE /\ Len(file') = Len(file) + 1
                /\ SubSeq(file', 1, Len(file)) = file
                /\ file'[Len(file')].valid
                /\ file'[Len(file')].row.token_id = work[idx'].token_id
                /\ file'[Len(file')].row.history = history'
                /\ file'[Len(file')].row.n_candles = Len(file'[Len(file')].row.history)
                /\ written' = written + 1
                /\ dropped' = dropped

MinCandleTotals ==
    /\ fpc \in {"loop", "done", "killed"} => written + dropped = idx
    /\ fpc = "done" => written + dropped = Len(requests)
    /\ \A j \in ValidRows(file) :
           /\ file[j].row.n_candles = Len(file[j].row.history)
           /\ file[j].row.n_candles >= DEFAULT_MIN_CANDLES

\* C5: a token whose fetched history has fewer than min_candles points gets
\* no row and raises dropped by one, the run going on; any other token gets
\* exactly one row whose n_candles is the length of its history; when a run
\* completes, written + dropped is the number of tokens fetched.
MinCandleFilter == [][MinCandleStep]_vars /\ []MinCandleTotals

MinCandleFilterWitness ==
    /\ fpc = "done"
    /\ written = 1
    /\ dropped = 1
    /\ Len(requests) = 2
    /\ Len(history) = 15
    /\ file[Len(file)].row.n_candles = 15

-----------------------------------------------------------------------------
SpecFetch == FetchInit /\ [][FetchNext]_vars

-----------------------------------------------------------------------------
(* http_get: collect_polymarket.py 41-55 ("collect"),                       *)
(* fetch_prices_by_tag.py 55-70 ("prices"),                                 *)
(* fetch_markets_by_tag_id.py 36-51 ("tagid")                               *)

MAX_RETRIES == 5

\* BACKOFF_SEC = 1.5, in tenths of a second
BACKOFF_TENTHS == 15

RetryStatuses == {429, 500, 502, 503, 504}

\* the calls the three scripts make
HttpCalls ==
    {[variant |-> "collect", url |-> "gamma/markets/1", params |-> NoneV],
     [variant |-> "collect", url |-> "clob/prices-history",
      params |-> DictV([market |-> StrV("A")])],
     [variant |-> "prices", url |-> "clob/prices-history",
      params |-> DictV([market |-> StrV("A")])],
     [variant |-> "tagid", url |-> "gamma/markets",
      params |-> DictV([offset |-> NumV(0)])]}

\* what the upstream may answer to one requests.get
Outcomes ==
    {[kind |-> "ok", body |-> b] :
        b \in {ListV(<<>>), DictV([history |-> ListV(<<>>)])}}
    \cup {[kind |-> "status", code |-> c] : c \in RetryStatuses \cup {404}}
    \cup {[kind |-> "badjson"], [kind |-> "exc"]}

\* the exception the try block raises for an outcome, as except sees it
ExceptionOf(o) ==
    CASE o.kind = "exc"     -> StrV("ConnectionError")
      [] o.kind = "badjson" -> StrV("JSONDecodeError")
      [] o.kind = "status"  -> StrV("HTTPError " \o ToString(o.code))
      [] OTHER              -> NoneV

RECURSIVE Pow2(_)
Pow2(n) == IF n = 0 THEN 1 ELSE 2 * Pow2(n - 1)

\* the sleep of the status branch
StatusWait(variant, a) ==
    IF variant = "collect" THEN BACKOFF_TENTHS * a
    ELSE BACKOFF_TENTHS * Pow2(a - 1)

\* the sleep of the except branch
ExceptWait(a) == BACKOFF_TENTHS * a

\* `if r.status_code in (429, 500, 502, 503, 504)`
IsRetryStatus(o) == o.kind = "status" /\ o.code \in RetryStatuses

\* the try block reaches `return r.json()`
Returns(o) == o.kind = "ok"

\* the value of last_err after an attempt
NextLastErr(o, err) == IF IsRetryStatus(o) \/ Returns(o) THEN err ELSE ExceptionOf(o)

\* the RuntimeError raised after the loop
FailureMessage(variant, url, params, err) ==
    IF variant = "collect"
    THEN [url |-> url, params |-> params, err |-> err]
    ELSE [url |-> url, err |-> err]

\* range(1, MAX_RETRIES + 2): one iteration too many
HasNextAttemptOffByOne(a) == a <= MAX_RETRIES

\* `for attempt in range(1, MAX_RETRIES + 1)`: is there another iteration
HasNextAttempt(a) == a < MAX_RETRIES

HttpInit ==
    /\ \E c \in HttpCalls :
          /\ hVariant = c.variant
          /\ hUrl = c.url
          /\ hParams = c.params
    /\ hpc = "running"
    /\ attempt = 1
    /\ last_err = NoneV
    /\ hLog = <<>>
    /\ sleeps = <<>>
    /\ hResult = NoneV
    /\ hError = NoneV
    /\ FetchIdle
    /\ ExtractIdle
    /\ CollectIdle
    /\ FilterIdle
    /\ PagesIdle

\* one iteration of http_get's loop (and, after the last one, the raise)
HttpAttempt(o) ==
    /\ hpc = "running"
    /\ hLog' = Append(hLog, o)
    /\ last_err' = NextLastErr(o, last_err)
    /\ IF Returns(o)
       THEN /\ hpc' = "returned"
            /\ hResult' = o.body
            /\ UNCHANGED <<attempt, sleeps, hError>>
       ELSE /\ sleeps' = Append(sleeps, IF IsRetryStatus(o)
                                        THEN StatusWait(hVariant, attempt)
                                        ELSE ExceptWait(attempt))
            /\ IF HasNextAttempt(attempt)
               THEN /\ attempt' = attempt + 1
                    /\ UNCHANGED <<hpc, hError>>
               ELSE /\ hpc' = "raised"
                    /\ hError' = FailureMessage(hVariant, hUrl, hParams, last_err')
                    /\ UNCHANGED attempt
            /\ UNCHANGED hResult
    /\ UNCHANGED <<hVariant, hUrl, hParams>>
    /\ UNCHANGED <<fvars, xvars, cvars, mvars, tvars>>

HttpNext == \E o \in Outcomes : HttpAttempt(o)

SpecHttp == HttpInit /\ [][HttpNext]_vars

\* the upstream answers every request and sleeps end: the loop keeps going
FairSpecHttp == SpecHttp /\ WF_vars(HttpNext)

-----------------------------------------------------------------------------
(* Claims about http_get (checked under SpecHttp / FairSpecHttp)            *)

\* a 4xx status other than 429
IsClientError(o) == o.kind = "status" /\ o.code >= 400 /\ o.code < 500 /\ o.code # 429

\* C6: when the first response has a 4xx status other than 429, http_get
\* fails after exactly one request, with no sleep and no further attempt.
NonRetryableFailsAtOnce ==
    (hLog # <<>> /\ IsClientError(hLog[1])) =>
        /\ hpc = "raised"
        /\ Len(hLog) = 1
        /\ sleeps = <<>>

\* a response whose JSON body http_get can return
Succeeded(o) == o.kind = "ok"

RetryCeilingInv ==
    /\ Len(hLog) <= 5
    /\ \A j \in 1..(Len(hLog) - 1) : ~Succeeded(hLog[j])
    /\ hpc = "running" =>
          /\ Len(hLog) < 5
          /\ attempt = Len(hLog) + 1
          /\ \A j \in 1..Len(hLog) : ~Succeeded(hLog[j])
    /\ hpc = "returned" =>
          /\ hLog # <<>>
          /\ Succeeded(hLog[Len(hLog)])
          /\ hResult = hLog[Len(hLog)].body
    /\ hpc = "raised" =>
          /\ Len(hLog) = 5
          /\ \A j \in 1..Len(hLog) : ~Succeeded(hLog[j])

HttpFinished == hpc \in {"returned", "raised"}

\* C7: one call issues at most 5 requests; after every retryable status and
\* every exception short of the 5th failure it issues the request again; it
\* returns the body of the first successful response and issues nothing
\* after it; after the 5th failure it raises; every call terminates.
RetryCeiling == []RetryCeilingInv /\ <>HttpFinished

RetryCeilingWitness ==
    /\ hpc = "raised"
    /\ Len(hLog) = 5
    /\ hLog[1].kind = "exc"
    /\ hLog[2].kind = "status" /\ hLog[2].code = 429
    /\ hLog[5].kind = "status" /\ hLog[5].code = 504

\* C8: the error raised on exhaustion carries the URL, the params and the
\* underlying error of the last failed attempt, whatever the failures were.
ExhaustionErrorContent ==
    hpc = "raised" =>
        /\ hError.url = hUrl
        /\ "params" \in DOMAIN hError
        /\ hError.params = hParams
        /\ hError.err = ExceptionOf(hLog[Len(hLog)])

-----------------------------------------------------------------------------
(* Token-id extraction: collect_polymarket.py 113-174                       *)

\* str(value).strip().lower() of the label strings the inputs use
NormLabel(str) ==
    CASE str \in {"Yes", "YES", "yes", " Yes "} -> "yes"
      [] str \in {"Y", "y"}                      -> "y"
      [] str \in {"True", "true"}                -> "true"
      [] str \in {"No", "no"}                    -> "no"
      [] OTHER                                   -> str

\* _token_label(t): str of the first label key that is not None, or None
LabelKeys == <<"outcome", "outcomeName", "name", "title", "label">>

RECURSIVE FirstNotNone(_, _)
FirstNotNone(d, keys) ==
    IF keys = <<>> THEN NoneV
    ELSE IF Get(d, Head(keys)).k # "none" THEN Get(d, Head(keys))
    ELSE FirstNotNone(d, Tail(keys))

_token_label(t) ==
    LET v == FirstNotNone(t, LabelKeys)
    IN  IF v.k = "none" THEN NoneV ELSE StrV(Str(v))

_is_yes_label(value) ==
    IF value.k = "none" THEN FALSE
    ELSE NormLabel(Str(value)) \in {"yes", "y", "true", "1"}

\* [str(x) for x in v]
RECURSIVE StrAll(_)
StrAll(items) ==
    IF items = <<>> THEN <<>> ELSE <<Str(Head(items))>> \o StrAll(Tail(items))

\* the direct aliases with the first two swapped
DirectKeysReordered ==
    <<"clob_token_ids", "clobTokenIds", "outcomeTokenIds", "outcome_token_ids">>

DirectKeys == <<"clobTokenIds", "clob_token_ids", "outcomeTokenIds", "outcome_token_ids">>
IdKeys == <<"tokenId", "token_id", "clobTokenId", "clob_token_id", "id">>
NestedKeys == <<"clobTokenIds", "outcomeTokenIds">>

\* `for key in keys: v = _maybe_parse_json_list(d.get(key)); if v: ...`:
\* the first truthy parsed list, or None
RECURSIVE FirstList(_, _)
FirstList(d, keys) ==
    IF keys = <<>> THEN NoneV
    ELSE LET v == _maybe_parse_json_list(Get(d, Head(keys)))
         IN  IF Truthy(v) THEN v ELSE FirstList(d, Tail(keys))

\* lines 145-148 with the yes_only test left out
DirectResultGuessing(v, yes_only) == StrAll(v.items)

\* lines 145-148: what a truthy direct field returns
DirectResult(v, yes_only) == IF yes_only THEN <<>> ELSE StrAll(v.items)

\* lines 153-162 with the label test left out
RECURSIVE OutcomeIdsUnfiltered(_, _)
OutcomeIdsUnfiltered(items, yes_only) ==
    IF items = <<>> THEN <<>>
    ELSE LET o == Head(items)
             rest == OutcomeIdsUnfiltered(Tail(items), yes_only)
         IN  IF o.k # "dict" THEN rest
             ELSE LET id == FirstNotNone(o.d, IdKeys)
                  IN  IF id.k # "none" THEN <<Str(id)>> \o rest ELSE rest

\* lines 153-162: the loop over outcomes
RECURSIVE OutcomeIds(_, _)
OutcomeIds(items, yes_only) ==
    IF items = <<>> THEN <<>>
    ELSE LET o == Head(items)
             rest == OutcomeIds(Tail(items), yes_only)
         IN  IF o.k # "dict" THEN rest
             ELSE IF yes_only /\ ~_is_yes_label(_token_label(o.d)) THEN rest
             ELSE LET id == FirstNotNone(o.d, IdKeys)
                  IN  IF id.k # "none" THEN <<Str(id)>> \o rest ELSE rest

\* lines 167-172
NestedResult(m) ==
    LET market == Get(m, "market")
    IN  IF market.k = "dict"
        THEN LET v == FirstList(market.d, NestedKeys)
             IN  IF Truthy(v) THEN StrAll(v.items) ELSE <<>>
        ELSE <<>>

extract_clob_token_ids(m, yes_only) ==
    LET v == FirstList(m, DirectKeys)
    IN  IF Truthy(v) THEN DirectResult(v, yes_only)
        ELSE LET outcomes == _maybe_parse_json_list(Get(m, "outcomes"))
                 ids == IF Truthy(outcomes) THEN OutcomeIds(outcomes.items, yes_only)
                        ELSE <<>>
             IN  IF ids # <<>> THEN ids ELSE NestedResult(m)

\* ---- inputs ----
WS == Tk("ws")

\* values of the clobTokenIds field
ClobChoices ==
    {NoneV,
     ListV(<<>>),
     ListV(<<StrV("c1"), StrV("c2")>>),
     ListV(<<NumV(111)>>),
     ListV(<<StrV("c3"), NumV(7), StrV("c3")>>),
     \* ' ["c1", "c2"] '
     TextV(<<WS, Tk("["), TkStr("c1"), Tk(","), WS, TkStr("c2"), Tk("]"), WS>>),
     \* '[]'
     TextV(<<Tk("["), Tk("]")>>),
     \* '["c1",]'
     TextV(<<Tk("["), TkStr("c1"), Tk(","), Tk("]")>>),
     \* '"c1"'
     TextV(<<TkStr("c1")>>)}

AliasChoices(id) == {NoneV, ListV(<<>>), ListV(<<StrV(id)>>)}

Obj(label, idkey, id) ==
    DictV((IF label = "" THEN <<>> ELSE [outcome |-> StrV(label)])
          @@ (IF idkey = "" THEN <<>> ELSE (idkey :> StrV(id))))

OutcomesChoices ==
    {NoneV,
     ListV(<<>>),
     ListV(<<Obj("Yes", "tokenId", "111"), Obj("No", "tokenId", "222")>>),
     ListV(<<Obj("No", "token_id", "222"), Obj("YES", "id", "111")>>),
     ListV(<<Obj("", "tokenId", "333")>>),
     ListV(<<Obj("Yes", "", "")>>),
     ListV(<<Obj(" Yes ", "clob_token_id", "555"), Obj("y", "tokenId", "666")>>),
     ListV(<<DictV([outcome |-> NoneV, title |-> StrV("true"), label |-> StrV("No"),
                    clobTokenId |-> NumV(444), id |-> StrV("999")])>>),
     ListV(<<StrV("Yes"), StrV("No")>>),
     \* '["Yes", "No"]'
     TextV(<<Tk("["), TkStr("Yes"), Tk(","), WS, TkStr("No"), Tk("]")>>)}

\* values of the tokens field
TokensChoices ==
    {NoneV,
     ListV(<<Obj("Yes", "token_id", "111"), Obj("No", "token_id", "222")>>)}

NestedChoices ==
    {NoneV,
     StrV("n"),
     DictV([clobTokenIds |-> ListV(<<StrV("n1")>>)]),
     DictV([outcomeTokenIds |-> ListV(<<StrV("n2")>>)]),
     DictV([clobTokenIds |-> ListV(<<>>), outcomeTokenIds |-> ListV(<<StrV("n2")>>)])}

MarketRecords ==
    {[clobTokenIds |-> c, clob_token_ids |-> a2, outcomeTokenIds |-> a3,
      outcome_token_ids |-> a4, tokens |-> t, outcomes |-> o, market |-> n] :
        c \in ClobChoices, a2 \in AliasChoices("u"), a3 \in AliasChoices("v"),
        a4 \in AliasChoices("w"), t \in TokensChoices, o \in OutcomesChoices,
        n \in NestedChoices}

ExtractInit ==
    /\ xMarket \in MarketRecords
    /\ xYesOnly \in BOOLEAN
    /\ xpc = "ready"
    /\ xResult = <<>>
    /\ FetchIdle
    /\ HttpIdle
    /\ CollectIdle
    /\ FilterIdle
    /\ PagesIdle

\* a call extract_clob_token_ids(m, yes_only=...)
Extract ==
    /\ xpc = "ready"
    /\ xResult' = extract_clob_token_ids(xMarket, xYesOnly)
    /\ xpc' = "done"
    /\ UNCHANGED <<xMarket, xYesOnly>>
    /\ UNCHANGED <<fvars, hvars, cvars, mvars, tvars>>

ExtractNext == Extract

SpecExtract == ExtractInit /\ [][ExtractNext]_vars

\* the market with a clobTokenIds text that json.loads does not turn into a
\* list taken out
WithoutMalformed(m) ==
    IF Get(m, "clobTokenIds").k = "text" /\ json_loads(Get(m, "clobTokenIds")).k # "list"
    THEN [key \in DOMAIN m \ {"clobTokenIds"} |-> m[key]]
    ELSE m

\* C13: a direct token-id field holding a string that is not the JSON text
\* of a list counts as missing: the work list of a first run is the one the
\* same markets give without that field, the tokens list being consulted.
MalformedFieldTreatedAsAbsent ==
    (fpc = "loop" /\ already_done = {})
        => work = BuildWork([j \in 1..Len(markets) |-> WithoutMalformed(markets[j])], {})

\* C19: an answer of the price-history endpoint that is a list is used as
\* the history and raises no error; an answer that is neither a list nor a
\* dict with a history gives the empty history.
ListResponseIsHistory ==
    /\ lastResp.kind = "list" => (fpc # "failed" /\ history = lastResp.items)
    /\ lastResp.kind = "dict_nohistory" => (fpc # "failed" /\ history = <<>>)

-----------------------------------------------------------------------------
(* Claims about extract_clob_token_ids (checked under SpecExtract)          *)

\* what each source of a market record holds, in the order of the claim:
\* the four direct aliases, the labelled object list, the nested market's
\* two fields
ParsedItems(value) ==
    LET v == _maybe_parse_json_list(value)
    IN  IF v.k = "list" THEN v.items ELSE <<>>

LabelledIds(m, yes_only) ==
    LET objs == ParsedItems(Get(m, "outcomes"))
        keep(o) == /\ o.k = "dict"
                   /\ \E key \in SeqToSet(IdKeys) : Get(o.d, key).k # "none"
                   /\ yes_only => _is_yes_label(_token_label(o.d))
        idOf(o) == Str(FirstNotNone(o.d, IdKeys))
        kept == SelectSeq(objs, keep)
    IN  [j \in 1..Len(kept) |-> idOf(kept[j])]

NestedIds(m, key) ==
    LET market == Get(m, "market")
    IN  IF market.k = "dict" THEN StrAll(ParsedItems(Get(market.d, key))) ELSE <<>>

Sources(m, yes_only) ==
    <<StrAll(ParsedItems(Get(m, "clobTokenIds"))),
      StrAll(ParsedItems(Get(m, "clob_token_ids"))),
      StrAll(ParsedItems(Get(m, "outcomeTokenIds"))),
      StrAll(ParsedItems(Get(m, "outcome_token_ids"))),
      LabelledIds(m, yes_only),
      NestedIds(m, "clobTokenIds"),
      NestedIds(m, "outcomeTokenIds")>>

\* the first source that yields a non-empty list (0 when none does)
FirstSource(m, yes_only) ==
    LET src == Sources(m, yes_only)
        hits == {j \in 1..Len(src) : src[j] # <<>>}
    IN  IF hits = {} THEN 0 ELSE CHOOSE j \in hits : \A h \in hits : j <= h

IsDirectSource(j) == j \in 1..4

OnlyDirectSource(m) ==
    /\ \E j \in 1..4 : Sources(m, FALSE)[j] # <<>>
    /\ \A j \in 5..7 : Sources(m, FALSE)[j] = <<>>

\* C10: with yes_only, a market whose only token source is a non-empty
\* direct token-id field yields the empty list.
YesOnlyNeverGuesses ==
    (xpc = "done" /\ xYesOnly /\ OnlyDirectSource(xMarket)) => xResult = <<>>

YesOnlyNeverGuessesWitness ==
    /\ xpc = "done"
    /\ xYesOnly
    /\ OnlyDirectSource(xMarket)
    /\ Sources(xMarket, FALSE)[1] = <<"c1", "c2">>
    /\ xResult = <<>>

\* ---- yes_only on a labelled outcomes list ----

\* lower-casing of a label, nothing else
LowerCase(str) ==
    CASE str \in {"Yes", "YES", "yes"} -> "yes"
      [] str = " Yes "                 -> " yes "
      [] str \in {"Y", "y"}            -> "y"
      [] str \in {"True", "true"}      -> "true"
      [] str \in {"No", "no"}          -> "no"
      [] OTHER                         -> str

NoDirectField(m) == \A key \in SeqToSet(DirectKeys) : Get(m, key).k = "none"

OutcomesOfObjects(m) ==
    LET o == Get(m, "outcomes")
    IN  /\ o.k = "list"
        /\ o.items # <<>>
        /\ \A j \in 1..Len(o.items) : o.items[j].k = "dict"

\* the ids of the objects whose label equals a yes word ignoring case
YesIdsAsStated(m) ==
    LET objs == Get(m, "outcomes").items
        label(o) == FirstNotNone(o.d, LabelKeys)
        keep(o) == /\ label(o).k # "none"
                   /\ LowerCase(Str(label(o))) \in {"yes", "y", "true", "1"}
                   /\ FirstNotNone(o.d, IdKeys).k # "none"
        kept == SelectSeq(objs, keep)
    IN  [j \in 1..Len(kept) |-> Str(FirstNotNone(kept[j].d, IdKeys))]

\* what the nested market object yields
NestedFallback(m) ==
    IF NestedIds(m, "clobTokenIds") # <<>> THEN NestedIds(m, "clobTokenIds")
    ELSE NestedIds(m, "outcomeTokenIds")

\* C11 as stated: with yes_only, a market with no direct token-id field and
\* an outcomes list of objects yields, in list order, exactly the ids of the
\* objects whose label equals yes, y, true or 1 ignoring case.
YesOnlyLabelled ==
    (xpc = "done" /\ xYesOnly /\ NoDirectField(xMarket) /\ OutcomesOfObjects(xMarket))
        => xResult = YesIdsAsStated(xMarket)

\* C11 (amended): the label is compared ignoring case and surrounding
\* whitespace, and when no object qualifies the result is what the nested
\* market object yields (empty when there is none).
YesOnlyLabelledAmended ==
    (xpc = "done" /\ xYesOnly /\ NoDirectField(xMarket) /\ OutcomesOfObjects(xMarket))
        => LET ids == LabelledIds(xMarket, TRUE)
           IN  xResult = IF ids # <<>> THEN ids ELSE NestedFallback(xMarket)

YesOnlyLabelledWitness ==
    /\ xpc = "done"
    /\ xYesOnly
    /\ NoDirectField(xMarket)
    /\ Get(xMarket, "outcomes") =
           ListV(<<Obj("Yes", "tokenId", "111"), Obj("No", "tokenId", "222")>>)
    /\ xResult = <<"111">>

\* ---- string form of clobTokenIds ----

\* the JSON text of a list of scalars: "[" e1 ", " e2 ... "]"
RECURSIVE JsonElems(_)
JsonElems(items) ==
    IF items = <<>> THEN <<>>
    ELSE LET e == Head(items)
             tok == IF e.k = "str" THEN TkStr(e.s) ELSE TkNum(e.n)
         IN  IF Len(items) = 1 THEN <<tok>>
             ELSE <<tok, Tk(","), WS>> \o JsonElems(Tail(items))

JsonDumps(items) == <<Tk("[")>> \o JsonElems(items) \o <<Tk("]")>>

\* the market with its clobTokenIds list replaced by the list's JSON text
WithStringForm(m) ==
    [m EXCEPT !.clobTokenIds = TextV(JsonDumps(m.clobTokenIds.items))]

\* C12: without yes_only, a market whose clobTokenIds is a list L yields the
\* same ids as the same market with clobTokenIds holding the JSON text of L.
StringFormEqualsListForm ==
    (xpc = "done" /\ ~xYesOnly /\ Get(xMarket, "clobTokenIds").k = "list")
        => xResult = extract_clob_token_ids(WithStringForm(xMarket), FALSE)

StringFormEqualsListFormWitness ==
    /\ xpc = "done"
    /\ ~xYesOnly
    /\ Get(xMarket, "clobTokenIds") = ListV(<<StrV("c3"), NumV(7), StrV("c3")>>)
    /\ xResult = <<"c3", "7", "c3">>
    /\ extract_clob_token_ids(WithStringForm(xMarket), FALSE) = <<"c3", "7", "c3">>

\* ---- the tokens field ----

TokensOfObjects(m) ==
    LET t == Get(m, "tokens")
    IN  /\ t.k = "list"
        /\ t.items # <<>>
        /\ \A j \in 1..Len(t.items) :
               /\ t.items[j].k = "dict"
               /\ FirstNotNone(t.items[j].d, IdKeys).k # "none"

\* the market with its tokens list stored under outcomes instead
TokensAsOutcomes(m) == [m EXCEPT !.outcomes = m.tokens, !.tokens = NoneV]

\* C14: a market with no direct token-id field and no outcomes field whose
\* tokens field is a list of objects carrying ids yields what the same
\* market yields with that list stored under outcomes.
LabelledShapeCoversTokens ==
    (/\ xpc = "done"
     /\ NoDirectField(xMarket)
     /\ Get(xMarket, "outcomes").k = "none"
     /\ TokensOfObjects(xMarket))
        => xResult = extract_clob_token_ids(TokensAsOutcomes(xMarket), xYesOnly)

-----------------------------------------------------------------------------
(* collect_polymarket.py: main from the resolution loop on                  *)

\* bound: number of rows selected from the markets CSV
MaxRows == 2

\* str(v) when v is not None (parse_market_row, lines 212-215)
StrOrNone(v) == IF v.k = "none" THEN NoneV ELSE StrV(Str(v))

parse_market_row(row) ==
    [market_id |->
        StrOrNone(Or(Get(row, "id"), Or(Get(row, "market_id"), Get(row, "marketId")))),
     condition_id |->
        StrOrNone(Or(Get(row, "condition_id"), Get(row, "conditionId")))]

extract_condition_id(m) == Or(Get(m, "conditionId"), Get(m, "condition_id"))

extract_market_id(market, fallback) ==
    IF Truthy(market)
    THEN LET v == FirstNotNone(market.d, <<"id", "market_id", "marketId">>)
         IN  IF v.k # "none" THEN StrV(Str(v)) ELSE fallback
    ELSE fallback

\* what http_get hands back: a JSON body, or the RuntimeError of retry
\* exhaustion
Raised == [kind |-> "raise"]
Body(b) == [kind |-> "json", body |-> b]

\* fetch_market_details: the detail dict, or None
fetch_market_details(resp) ==
    IF resp.kind = "raise" THEN NoneV
    ELSE IF resp.body.k = "dict" THEN resp.body
    ELSE IF resp.body.k = "list" /\ resp.body.items # <<>>
    THEN (IF resp.body.items[1].k = "dict" THEN resp.body.items[1] ELSE NoneV)
    ELSE NoneV

\* the resolver with the extractor run on the row first
ResolveDirectFirst(row, yes_only, resp) ==
    LET p == parse_market_row(row)
        direct == extract_clob_token_ids(row, yes_only)
        asked == direct = <<>> /\ p.market_id.k # "none"
        detail == IF asked THEN fetch_market_details(resp) ELSE NoneV
    IN  [token_ids |-> IF direct # <<>> THEN direct
                       ELSE IF Truthy(detail)
                       THEN extract_clob_token_ids(detail.d, yes_only) ELSE <<>>,
         detail |-> detail, asked |-> asked]

\* the resolver keeping only the first id under yes_only
ResolveFirstOnly(row, yes_only, resp) ==
    LET p == parse_market_row(row)
        asked == p.market_id.k # "none"
        detail == IF asked THEN fetch_market_details(resp) ELSE NoneV
        token_ids == IF Truthy(detail)
                     THEN extract_clob_token_ids(detail.d, yes_only) ELSE <<>>
    IN  [token_ids |-> IF yes_only /\ Len(token_ids) > 1 THEN <<token_ids[1]>>
                       ELSE token_ids,
         detail |-> detail, asked |-> asked]

\* the resolver falling back on the row when there is no detail
ResolveRowFallback(row, yes_only, resp) ==
    LET p == parse_market_row(row)
        asked == p.market_id.k # "none"
        detail == IF asked THEN fetch_market_details(resp) ELSE NoneV
    IN  [token_ids |-> IF Truthy(detail)
                       THEN extract_clob_token_ids(detail.d, yes_only)
                       ELSE extract_clob_token_ids(row, yes_only),
         detail |-> detail, asked |-> asked]

\* resolve_token_ids_from_csv_row; asked tells whether the detail request
\* was issued, resp is what it was answered
resolve_token_ids_from_csv_row(row, yes_only, resp) ==
    LET p == parse_market_row(row)
    IN  IF p.market_id.k = "none" /\ p.condition_id.k = "none"
        THEN [token_ids |-> <<>>, detail |-> NoneV, asked |-> FALSE]
        ELSE LET asked == p.market_id.k # "none"
                 detail == IF asked THEN fetch_market_details(resp) ELSE NoneV
                 token_ids == IF Truthy(detail)
                              THEN extract_clob_token_ids(detail.d, yes_only)
                              ELSE <<>>
             IN  [token_ids |-> token_ids, detail |-> detail, asked |-> asked]

\* the key with the condition id tried before the market id
RowKeyConditionFirst(row, detail, i) ==
    LET p == parse_market_row(row)
        condition_id == IF Truthy(detail) /\ p.condition_id.k = "none"
                        THEN extract_condition_id(detail.d) ELSE p.condition_id
        market_id == extract_market_id(detail, p.market_id)
    IN  Str(Or(condition_id, Or(market_id, StrV("row_" \o ToString(i)))))

\* main, lines 311-314
RowKey(row, detail, i) ==
    LET p == parse_market_row(row)
        condition_id == IF Truthy(detail) /\ p.condition_id.k = "none"
                        THEN extract_condition_id(detail.d) ELSE p.condition_id
        market_id == extract_market_id(detail, p.market_id)
    IN  Str(Or(market_id, Or(condition_id, StrV("row_" \o ToString(i)))))

\* main, lines 319-322: detail overlaid by the row
SelectedMarket(row, detail) == IF Truthy(detail) THEN row @@ detail.d ELSE row

\* d[key] = value on an insertion-ordered dict
DictSet(d, key, value) ==
    IF \E j \in 1..Len(d) : d[j].key = key
    THEN [j \in 1..Len(d) |-> IF d[j].key = key THEN [key |-> key, m |-> value] ELSE d[j]]
    ELSE Append(d, [key |-> key, m |-> value])

\* token_ids_by_key.get(key, [])
TokensOf(byKey, key) == IF key \in DOMAIN byKey THEN byKey[key] ELSE <<>>

MarketIdOf(m) == Or(Get(m, "id"), Or(Get(m, "market_id"), Get(m, "marketId")))
ConditionIdOf(m) == Or(Get(m, "conditionId"), Get(m, "condition_id"))

\* main, lines 327-342
MarketRowsOf(selected, byKey) ==
    [j \in 1..Len(selected) |->
        [market_id    |-> MarketIdOf(selected[j].m),
         conditionId  |-> ConditionIdOf(selected[j].m),
         clobTokenIds |-> TokensOf(byKey, selected[j].key)]]

\* fetch_prices_history: the response normalised to a dict with a history
fetch_prices_history(resp) ==
    IF resp.body.k = "dict" /\ "history" \in DOMAIN resp.body.d THEN resp.body.d
    ELSE IF resp.body.k = "list" THEN [history |-> resp.body]
    ELSE [history |-> ListV(<<>>)]

\* ---- inputs ----
\* rows of the markets CSV (csv.DictReader: every value is a str)
RowChoices ==
    {[id |-> StrV("1")],
     [id |-> StrV("2"), condition_id |-> StrV("c2")],
     [condition_id |-> StrV("c3")],
     [id |-> StrV("")],
     \* a row that carries '["r1"]' itself
     [id |-> StrV("1"), clobTokenIds |-> TextV(<<Tk("["), TkStr("r1"), Tk("]")>>)]}

RowFiles == SeqsUpTo(RowChoices, MaxRows)

\* payloads of GET /markets/{id}
Details ==
    {[id |-> StrV("1"), conditionId |-> StrV("ca"),
      clobTokenIds |-> TextV(<<Tk("["), TkStr("t1"), Tk(","), WS, TkStr("t2"), Tk("]")>>)],
     [id |-> NumV(9),
      outcomes |-> ListV(<<Obj("Yes", "tokenId", "111"), Obj("No", "tokenId", "222"),
                           Obj("YES", "tokenId", "333")>>)],
     [id |-> StrV("1"),
      outcomes |-> ListV(<<Obj("Yes", "tokenId", "111"), Obj("No", "tokenId", "222")>>)],
     <<>>}

DetailResponses ==
    {Raised}
    \cup {Body(DictV(d)) : d \in Details}
    \cup {Body(ListV(<<DictV(d)>>)) : d \in Details}
    \cup {Body(ListV(<<>>)), Body(ListV(<<StrV("x")>>)), Body(StrV("x"))}

Point == DictV([t |-> NumV(1), p |-> NumV(50)])

\* answers of GET /prices-history
PriceBodies ==
    {Raised,
     Body(DictV([history |-> ListV(<<Point>>)])),
     Body(ListV(<<Point>>)),
     Body(DictV([error |-> StrV("e")])),
     Body(StrV("x"))}

\* the row an earlier run left in prices_history.jsonl
OldPriceRow ==
    [market_id |-> StrV("0"), conditionId |-> NoneV, token_id |-> "old",
     history |-> ListV(<<Point>>)]

CollectInit ==
    /\ all_rows \in RowFiles
    /\ cYesOnly \in BOOLEAN
    /\ cpc = "resolve"
    /\ ci = 0
    /\ token_ids_by_key = <<>>
    /\ filtered_selected = <<>>
    /\ markets_file = <<>>
    /\ pm = 0
    /\ pt = 0
    /\ price_rows = <<>>
    /\ prices_file = <<OldPriceRow>>
    /\ cReqs = <<>>
    /\ pricesAtStart = prices_file
    /\ resolved = <<>>
    /\ FetchIdle
    /\ HttpIdle
    /\ ExtractIdle
    /\ FilterIdle
    /\ PagesIdle

\* main, lines 307-324: one iteration of the resolution loop
ResolveRow(resp) ==
    /\ cpc = "resolve"
    /\ ci < Len(all_rows)
    /\ LET row == all_rows[ci + 1]
           r == resolve_token_ids_from_csv_row(row, cYesOnly, resp)
           row_key == RowKey(row, r.detail, ci + 1)
           reqs == IF r.asked
                   THEN <<[kind |-> "detail", id |-> parse_market_row(row).market_id.s]>>
                   ELSE <<>>
           failure == IF r.asked /\ r.detail = NoneV
                      THEN (IF resp.kind = "raise" THEN "raise" ELSE "shape")
                      ELSE ""
       IN  /\ cReqs' = cReqs \o reqs
           /\ resolved' = Append(resolved,
                                 [key |-> row_key, token_ids |-> r.token_ids,
                                  detail |-> r.detail, asked |-> r.asked,
                                  reqs |-> reqs, failure |-> failure])
           /\ token_ids_by_key' = (row_key :> r.token_ids) @@ token_ids_by_key
           /\ filtered_selected' =
                  IF r.token_ids = <<>> /\ cYesOnly THEN filtered_selected
                  ELSE DictSet(filtered_selected, row_key, SelectedMarket(row, r.detail))
    /\ ci' = ci + 1
    /\ UNCHANGED <<all_rows, cYesOnly, cpc, markets_file, pm, pt, price_rows, prices_file,
                   pricesAtStart>>
    /\ UNCHANGED <<fvars, hvars, xvars, mvars, tvars>>

\* main, lines 326-345: the markets file is written
WriteMarkets ==
    /\ cpc = "resolve"
    /\ ci = Len(all_rows)
    /\ markets_file' = MarketRowsOf(filtered_selected, token_ids_by_key)
    /\ cpc' = "prices"
    /\ UNCHANGED <<all_rows, cYesOnly, ci, token_ids_by_key, filtered_selected, pm, pt,
                   price_rows, prices_file, cReqs, pricesAtStart, resolved>>
    /\ UNCHANGED <<fvars, hvars, xvars, mvars, tvars>>

\* the loop over a market's tokens with each row written to the prices file
\* as soon as it is fetched
FetchPricesWriteThrough(resp) ==
    /\ cpc = "prices"
    /\ pm < Len(filtered_selected)
    /\ LET key == filtered_selected[pm + 1].key
           m == filtered_selected[pm + 1].m
           token_ids == TokensOf(token_ids_by_key, key)
           req == [kind |-> "prices", key |-> key, token_id |-> token_ids[pt + 1]]
           row == [market_id   |-> MarketIdOf(m),
                   conditionId |-> ConditionIdOf(m),
                   token_id    |-> token_ids[pt + 1],
                   history     |-> fetch_prices_history(resp).history]
       IN  /\ pt < Len(token_ids)
           /\ IF resp.kind = "raise"
              THEN /\ cpc' = "failed"
                   /\ cReqs' = Append(cReqs, req)
                   /\ UNCHANGED <<pt, price_rows, prices_file>>
              ELSE /\ cReqs' = cReqs \o <<req, [kind |-> "sleep"]>>
                   /\ price_rows' = Append(price_rows, row)
                   /\ prices_file' = Append(prices_file, row)
                   /\ pt' = pt + 1
                   /\ UNCHANGED cpc
    /\ UNCHANGED <<all_rows, cYesOnly, ci, token_ids_by_key, filtered_selected,
                   markets_file, pm, pricesAtStart, resolved>>
    /\ UNCHANGED <<fvars, hvars, xvars, mvars, tvars>>

\* main, lines 387-415: one iteration of the loop over a market's tokens
FetchPrices(resp) ==
    /\ cpc = "prices"
    /\ pm < Len(filtered_selected)
    /\ LET key == filtered_selected[pm + 1].key
           m == filtered_selected[pm + 1].m
           token_ids == TokensOf(token_ids_by_key, key)
           req == [kind |-> "prices", key |-> key, token_id |-> token_ids[pt + 1]]
       IN  /\ pt < Len(token_ids)
           /\ IF resp.kind = "raise"
              THEN /\ cpc' = "failed"
                   /\ cReqs' = Append(cReqs, req)
                   /\ UNCHANGED <<pt, price_rows>>
              ELSE /\ cReqs' = cReqs \o <<req, [kind |-> "sleep"]>>
                   /\ price_rows' = Append(price_rows,
                          [market_id   |-> MarketIdOf(m),
                           conditionId |-> ConditionIdOf(m),
                           token_id    |-> token_ids[pt + 1],
                           history     |-> fetch_prices_history(resp).history])
                   /\ pt' = pt + 1
                   /\ UNCHANGED cpc
    /\ UNCHANGED <<all_rows, cYesOnly, ci, token_ids_by_key, filtered_selected,
                   markets_file, pm, prices_file, pricesAtStart, resolved>>
    /\ UNCHANGED <<fvars, hvars, xvars, mvars, tvars>>

\* main, line 383: the loop over filtered_selected moves to the next market
NextMarket ==
    /\ cpc = "prices"
    /\ pm < Len(filtered_selected)
    /\ pt = Len(TokensOf(token_ids_by_key, filtered_selected[pm + 1].key))
    /\ pm' = pm + 1
    /\ pt' = 0
    /\ UNCHANGED <<all_rows, cYesOnly, cpc, ci, token_ids_by_key, filtered_selected,
                   markets_file, price_rows, prices_file, cReqs, pricesAtStart, resolved>>
    /\ UNCHANGED <<fvars, hvars, xvars, mvars, tvars>>

\* main, lines 417-427: the prices file is written (PARAMS["append"] is
\* False: write_jsonl opens it in mode "w")
WritePrices ==
    /\ cpc = "prices"
    /\ pm = Len(filtered_selected)
    /\ prices_file' = price_rows
    /\ cpc' = "done"
    /\ UNCHANGED <<all_rows, cYesOnly, ci, token_ids_by_key, filtered_selected,
                   markets_file, pm, pt, price_rows, cReqs, pricesAtStart, resolved>>
    /\ UNCHANGED <<fvars, hvars, xvars, mvars, tvars>>

CollectNext ==
    \/ \E resp \in DetailResponses : ResolveRow(resp)
    \/ WriteMarkets
    \/ \E resp \in PriceBodies : FetchPrices(resp)
    \/ NextMarket
    \/ WritePrices

SpecCollect == CollectInit /\ [][CollectNext]_vars

-----------------------------------------------------------------------------
(* Claims about the resolver and the batch loop (checked under SpecCollect) *)

HasMarketId(row) == parse_market_row(row).market_id.k # "none"
HasConditionId(row) == parse_market_row(row).condition_id.k # "none"

ConditionParams == <<"condition_id", "conditionId", "market">>

\* C16: for a row with no extractable tokens, no market id and a condition
\* id, the resolver issues the condition-id lookups under the names
\* condition_id, conditionId, market in that order, stops at the first that
\* gives tokens, and issues all three when none does.
ConditionIdFallback ==
    \A j \in 1..Len(resolved) :
        (/\ ~HasMarketId(all_rows[j])
         /\ HasConditionId(all_rows[j])
         /\ extract_clob_token_ids(all_rows[j], cYesOnly) = <<>>)
            => LET r == resolved[j]
               IN  /\ \E n \in 1..Len(ConditionParams) :
                          /\ Len(r.reqs) = n
                          /\ \A q \in 1..n :
                                 /\ r.reqs[q].kind = "condition"
                                 /\ r.reqs[q].param = ConditionParams[q]
                   /\ r.token_ids = <<>> => Len(r.reqs) = Len(ConditionParams)

\* what the extractor finds on a detail payload under yes_only
YesCandidates(d) ==
    IF \E j \in 1..4 : Sources(d, TRUE)[j] # <<>> THEN <<>>
    ELSE IF LabelledIds(d, TRUE) # <<>> THEN LabelledIds(d, TRUE)
    ELSE NestedFallback(d)

LastWithKey(key) ==
    CHOOSE j \in 1..Len(resolved) :
        /\ resolved[j].key = key
        /\ \A h \in 1..Len(resolved) : resolved[h].key = key => h <= j

\* C18: a failed detail lookup (retry exhaustion or a payload of unexpected
\* shape) gives the row an empty token list; the resolution loop handles
\* every row whatever failed; price history is requested only for tokens of
\* a row whose lookup succeeded; only a price request can end the run in
\* failure.
DetailFailureNotFatal ==
    /\ \A j \in 1..Len(resolved) : resolved[j].failure # "" => resolved[j].token_ids = <<>>
    /\ Len(resolved) = ci
    /\ cpc # "resolve" => Len(resolved) = Len(all_rows)
    /\ cpc = "failed" => (cReqs # <<>> /\ cReqs[Len(cReqs)].kind = "prices")
    /\ \A q \in 1..Len(cReqs) :
           cReqs[q].kind = "prices"
               => /\ \E j \in 1..Len(resolved) : resolved[j].key = cReqs[q].key
                  /\ resolved[LastWithKey(cReqs[q].key)].failure = ""
                  /\ \E h \in 1..Len(resolved[LastWithKey(cReqs[q].key)].token_ids) :
                         resolved[LastWithKey(cReqs[q].key)].token_ids[h] = cReqs[q].token_id

DetailFailureNotFatalWitness ==
    /\ cpc = "done"
    /\ Len(resolved) = 2
    /\ resolved[1].failure = "raise"
    /\ resolved[2].failure = ""
    /\ resolved[2].token_ids = <<"t1", "t2">>
    /\ Len(prices_file) = 2
    /\ \A q \in 1..Len(cReqs) : cReqs[q].kind = "prices" => cReqs[q].key = resolved[2].key

-----------------------------------------------------------------------------
(* filter_markets.py                                                        *)

DEFAULT_MIN_VOLUME_USD == 10000
DEFAULT_MIN_ACTIVE_DAYS == 7

\* bound: number of rows in the raw markets file
MaxRawMarkets == 3
\* bound: last day the clock reaches
MaxDay == 8

\* a str holding the ISO timestamp of the start of day d
IsoV(d) == [k |-> "iso", day |-> d]

\* _parse_iso: the datetime, or None for an empty or unparsable value
_parse_iso(v) == IF Truthy(v) /\ v.k = "iso" THEN v ELSE NoneV

\* _safe_float: float(val), 0.0 when it raises
_safe_float(val) == IF val.k = "num" THEN val.n ELSE 0

VolumeFields == <<"volume", "volumeNum", "volumeClob", "usdcSize", "totalVolume">>

RECURSIVE FirstPositive(_, _)
FirstPositive(m, fields) ==
    IF fields = <<>> THEN 0
    ELSE IF _safe_float(Get(m, Head(fields))) > 0 THEN _safe_float(Get(m, Head(fields)))
    ELSE FirstPositive(m, Tail(fields))

_get_volume(m) == FirstPositive(m, VolumeFields)

\* _get_active_days at clock reading t (in days): None without a start
_get_active_days(m, t) ==
    LET start == _parse_iso(Or(Get(m, "createdAt"), Or(Get(m, "created_at"), Get(m, "startDate"))))
        end == _parse_iso(Or(Get(m, "endDate"), Get(m, "end_date")))
    IN  IF start.k = "none" THEN NoneV
        ELSE LET ref == IF end.k # "none" /\ end.day < t THEN end.day ELSE t
             IN  NumV(IF ref - start.day > 0 THEN ref - start.day ELSE 0)

_has_clob_tokens(m) ==
    LET tokens0 == Or(Get(m, "tokens"), Or(Get(m, "clobTokenIds"), ListV(<<>>)))
        tokens == IF tokens0.k \in {"str", "text"} THEN json_loads(tokens0) ELSE tokens0
    IN  tokens.k = "list" /\ tokens.items # <<>>

\* apply_filter at clock reading t: "" when the market passes, else the
\* bucket of the rejection reason
apply_filter(m, min_volume, min_active_days, t) ==
    IF ~_has_clob_tokens(m) THEN "no_clob_tokens"
    ELSE IF ~Truthy(Or(Get(m, "question"), Get(m, "description")))
    THEN "no_question_or_description"
    ELSE IF _get_volume(m) < min_volume THEN "volume_too_low"
    ELSE LET active == _get_active_days(m, t)
         IN  IF active.k # "none" /\ active.n < min_active_days THEN "too_new" ELSE ""

\* InsertDesc placing a market before those of equal volume
RECURSIVE InsertDescUnstable(_, _)
InsertDescUnstable(sorted, m) ==
    IF sorted = <<>> THEN <<m>>
    ELSE IF _get_volume(Head(sorted)) > _get_volume(m)
    THEN <<Head(sorted)>> \o InsertDescUnstable(Tail(sorted), m)
    ELSE <<m>> \o sorted

\* list.sort(key=_get_volume, reverse=True) is stable: a market goes after
\* every market of greater or equal volume that came before it
RECURSIVE InsertDesc(_, _)
InsertDesc(sorted, m) ==
    IF sorted = <<>> THEN <<m>>
    ELSE IF _get_volume(Head(sorted)) >= _get_volume(m)
    THEN <<Head(sorted)>> \o InsertDesc(Tail(sorted), m)
    ELSE <<m>> \o sorted

RECURSIVE SortByVolume(_, _)
SortByVolume(ms, acc) ==
    IF ms = <<>> THEN acc ELSE SortByVolume(Tail(ms), InsertDesc(acc, Head(ms)))

Passes(m, t) == apply_filter(m, DEFAULT_MIN_VOLUME_USD, DEFAULT_MIN_ACTIVE_DAYS, t) = ""

\* main, lines 219-231: the filtered list, sorted
FilteredAt(ms, t) == SortByVolume(SelectSeq(ms, LAMBDA m : Passes(m, t)), <<>>)

\* ---- inputs ----
OneToken == ListV(<<StrV("A")>>)

\* raw market n
RawMarkets(n) ==
    {[id |-> NumV(n), tokens |-> OneToken, question |-> StrV("q"), volume |-> NumV(20000)],
     [id |-> NumV(n), tokens |-> OneToken, question |-> StrV("q"), volume |-> NumV(10000)],
     [id |-> NumV(n), clobTokenIds |-> TextV(<<Tk("["), TkStr("A"), Tk("]")>>),
      question |-> StrV("q"), volume |-> StrV(""), volumeNum |-> NumV(10000),
      createdAt |-> IsoV(0)],
     [id |-> NumV(n), tokens |-> OneToken, description |-> StrV("d"), volume |-> NumV(20000),
      createdAt |-> IsoV(0), endDate |-> IsoV(3)],
     [id |-> NumV(n), tokens |-> OneToken, question |-> StrV("q"), volume |-> NumV(5000)],
     [id |-> NumV(n), clobTokenIds |-> TextV(<<Tk("["), TkStr("A"), Tk(",")>>),
      question |-> StrV("q"), volume |-> NumV(20000)]}

RawFiles ==
    UNION {{ms \in [1..len -> UNION {RawMarkets(n) : n \in 1..len}] :
               \A n \in 1..len : ms[n] \in RawMarkets(n)} : len \in 0..MaxRawMarkets}

FilterInit ==
    /\ mMarkets \in RawFiles
    /\ now = 0
    /\ mpc = "ready"
    /\ filtered_file = <<>>
    /\ summary = NoneV
    /\ nRuns = 0
    /\ lastRunAt = 0
    /\ prevRunAt = 0
    /\ prevFile = <<>>
    /\ FetchIdle
    /\ HttpIdle
    /\ ExtractIdle
    /\ CollectIdle
    /\ PagesIdle

\* a day passes
Tick ==
    /\ mpc = "ready"
    /\ now < MaxDay
    /\ now' = now + 1
    /\ UNCHANGED <<mMarkets, mpc, filtered_file, summary, nRuns, lastRunAt, prevRunAt,
                   prevFile>>
    /\ UNCHANGED <<fvars, hvars, xvars, cvars, tvars>>

\* main, lines 216-238: one run of the filter step
RunFilter ==
    /\ mpc = "ready"
    /\ filtered_file' = FilteredAt(mMarkets, now)
    /\ summary' = DictV([filtered_at |-> IsoV(now),
                         raw_count |-> NumV(Len(mMarkets)),
                         filtered_count |-> NumV(Len(filtered_file'))])
    /\ nRuns' = IF nRuns < 2 THEN nRuns + 1 ELSE nRuns
    /\ prevFile' = filtered_file
    /\ prevRunAt' = lastRunAt
    /\ lastRunAt' = now
    /\ UNCHANGED <<mMarkets, now, mpc>>
    /\ UNCHANGED <<fvars, hvars, xvars, cvars, tvars>>

FilterNext == Tick \/ RunFilter

SpecFilter == FilterInit /\ [][FilterNext]_vars

-----------------------------------------------------------------------------
(* Claims about filter_markets.main (checked under SpecFilter)              *)

\* non-increasing volume, markets of equal volume in input order
SortedByVolume(f) ==
    \A i, j \in 1..Len(f) :
        i < j => \/ _get_volume(f[i]) > _get_volume(f[j])
                 \/ /\ _get_volume(f[i]) = _get_volume(f[j])
                    /\ f[i].id.n < f[j].id.n

\* C20 as stated: two runs on the same input with the same thresholds, at
\* any two points in time, write the same markets_filtered.jsonl, and its
\* rows are in non-increasing volume order with ties in input order.
FilterIdempotent ==
    /\ nRuns >= 1 => SortedByVolume(filtered_file)
    /\ nRuns >= 2 => filtered_file = prevFile

\* no market is rejected for being too new at clock reading t
NoneTooNew(t) ==
    \A j \in 1..Len(mMarkets) :
        apply_filter(mMarkets[j], DEFAULT_MIN_VOLUME_USD, DEFAULT_MIN_ACTIVE_DAYS, t)
            # "too_new"

\* C20 (amended): the two runs write the same file when the clock reads the
\* same or no market was rejected as too new at the earlier run; otherwise
\* the later file holds the earlier file's rows and, besides them, only
\* markets that were too new at the earlier run. The rows of every file are
\* in non-increasing volume order with ties in input order.
FilterIdempotentAmended ==
    /\ nRuns >= 1 => SortedByVolume(filtered_file)
    /\ nRuns >= 2 =>
           /\ (prevRunAt = lastRunAt \/ NoneTooNew(prevRunAt)) => filtered_file = prevFile
           /\ SeqToSet(prevFile) \subseteq SeqToSet(filtered_file)
           /\ \A m \in SeqToSet(filtered_file) \ SeqToSet(prevFile) :
                  apply_filter(m, DEFAULT_MIN_VOLUME_USD, DEFAULT_MIN_ACTIVE_DAYS, prevRunAt)
                      = "too_new"

FilterIdempotentWitness ==
    /\ nRuns = 2
    /\ prevRunAt < lastRunAt
    /\ NoneTooNew(prevRunAt)
    /\ filtered_file = prevFile
    /\ Len(filtered_file) = 3
    /\ [j \in 1..3 |-> filtered_file[j].id.n] = <<2, 1, 3>>
    /\ _get_volume(filtered_file[2]) = _get_volume(filtered_file[3])

-----------------------------------------------------------------------------
(* Claims about the writes and sleeps of collect_polymarket.main            *)

IsRequest(e) == e.kind \in {"detail", "prices"}
PriceRequests == SelectSeq(cReqs, LAMBDA e : e.kind = "prices")

\* C21: every price-history record is in the output file before the next
\* price-history request is issued: once n requests have been started, the
\* records of the first n - 1 are in prices_history.jsonl.
DurablePerRecord ==
    \A j \in 1..(Len(PriceRequests) - 1) :
        \E h \in 1..Len(prices_file) : prices_file[h] = price_rows[j]

\* C22: between any two consecutive upstream calls of a run there is at
\* least one sleep.
CourtesySleep ==
    \A i, j \in 1..Len(cReqs) :
        (i < j /\ IsRequest(cReqs[i]) /\ IsRequest(cReqs[j]))
            => \E q \in (i + 1)..(j - 1) : cReqs[q].kind = "sleep"

-----------------------------------------------------------------------------
(* Claims about the sleeps of http_get (checked under SpecHttp)             *)

\* C23: the sleep after the k-th failed attempt is the backoff base times k,
\* whether the attempt failed by status or by exception, and there is a
\* sleep only between attempts: none follows the last failed attempt.
LinearBackoff ==
    /\ \A k \in 1..Len(sleeps) : sleeps[k] = BACKOFF_TENTHS * k
    /\ Len(sleeps) <= Len(hLog)
    /\ hpc = "raised" => Len(sleeps) = Len(hLog) - 1

-----------------------------------------------------------------------------
(* Claims about the keys of the resolution loop (checked under SpecCollect) *)

\* the market id and the condition id main holds for the j-th row once its
\* detail is known (lines 308-313)
MarketIdAt(j) == extract_market_id(resolved[j].detail, parse_market_row(all_rows[j]).market_id)
ConditionIdAt(j) ==
    IF Truthy(resolved[j].detail) /\ parse_market_row(all_rows[j]).condition_id.k = "none"
    THEN extract_condition_id(resolved[j].detail.d)
    ELSE parse_market_row(all_rows[j]).condition_id

\* the j-th row hit `continue` at line 318
Skipped(j) == cYesOnly /\ resolved[j].token_ids = <<>>

KeptRows == {j \in 1..Len(resolved) : ~Skipped(j)}

\* C24 as stated: rows with different condition ids, and rows without one,
\* never share a key; no token list and no market row is overwritten; as
\* many market rows are written as rows were not skipped.
MarketKeying ==
    /\ \A i, j \in 1..Len(resolved) :
           (i < j /\ (~Truthy(ConditionIdAt(i)) \/ ConditionIdAt(i) # ConditionIdAt(j)))
               => resolved[i].key # resolved[j].key
    /\ \A j \in 1..Len(resolved) :
           token_ids_by_key[resolved[j].key] = resolved[j].token_ids
    /\ cpc # "resolve" => Len(markets_file) = Cardinality(KeptRows)

\* C24: a row is keyed by its market id (the detail's, else the row's) when
\* it has one, else by its condition id, else by its position; rows with
\* the same key share one entry: the token list of a key is that of the
\* last row with the key, and as many market rows are written as there are
\* distinct keys among the rows that were not skipped.
MarketKeyingAmended ==
    /\ \A j \in 1..Len(resolved) :
           resolved[j].key =
               IF Truthy(MarketIdAt(j)) THEN Str(MarketIdAt(j))
               ELSE IF Truthy(ConditionIdAt(j)) THEN Str(ConditionIdAt(j))
               ELSE "row_" \o ToString(j)
    /\ \A i, j \in 1..Len(resolved) :
           (Truthy(MarketIdAt(i)) /\ MarketIdAt(i) = MarketIdAt(j))
               => resolved[i].key = resolved[j].key
    /\ DOMAIN token_ids_by_key = {resolved[j].key : j \in 1..Len(resolved)}
    /\ \A j \in 1..Len(resolved) :
           token_ids_by_key[resolved[j].key] = resolved[LastWithKey(resolved[j].key)].token_ids
    /\ cpc # "resolve" =>
           Len(markets_file) = Cardinality({resolved[j].key : j \in KeptRows})

MarketKeyingAmendedWitness ==
    /\ cpc = "done"
    /\ Len(resolved) = 2
    /\ resolved[1].key = resolved[2].key
    /\ ConditionIdAt(1) = StrV("ca")
    /\ ConditionIdAt(2) = NoneV
    /\ resolved[1].token_ids = <<"t1", "t2">>
    /\ resolved[2].token_ids = <<>>
    /\ KeptRows = {1, 2}
    /\ Len(markets_file) = 1

-----------------------------------------------------------------------------
(* Claims about yes_only and the sources without labels (SpecExtract)       *)

\* the ids of the objects of the outcomes list that carry a yes label
YesLabelledIdSet(m) ==
    LET o == Get(m, "outcomes")
    IN  IF o.k # "list" THEN {}
        ELSE {Str(FirstNotNone(o.items[j].d, IdKeys)) :
                 j \in {h \in 1..Len(o.items) :
                           /\ o.items[h].k = "dict"
                           /\ _is_yes_label(_token_label(o.items[h].d))
                           /\ FirstNotNone(o.items[h].d, IdKeys).k # "none"}}

\* one of the four direct fields holds a non-empty list
HasDirectField(m) == \E j \in 1..4 : Sources(m, FALSE)[j] # <<>>

\* C25: with yes_only, a market that has both a non-empty direct token-id
\* field and an outcomes object labelled Yes yields the id of that object:
\* the direct field is not used and the labelled path is still taken.
LabelledPathReachable ==
    (xpc = "done" /\ xYesOnly /\ HasDirectField(xMarket)
     /\ YesLabelledIdSet(xMarket) # {})
        => /\ xResult # <<>>
           /\ \A j \in 1..Len(xResult) : xResult[j] \in YesLabelledIdSet(xMarket)

\* C26: with yes_only, every id returned is the id of an object whose label
\* is a yes word, for every market record; none comes from a source without
\* labels.
YesOnlyAlwaysLabelled ==
    (xpc = "done" /\ xYesOnly)
        => \A j \in 1..Len(xResult) : xResult[j] \in YesLabelledIdSet(xMarket)

-----------------------------------------------------------------------------
(* fetch_markets_by_tag_id.py: fetch_markets                                *)

PAGE_SIZE == 100

\* bound: largest max_markets asked for
MaxWanted == 3
\* bound: largest page the upstream serves
MaxBatch == 2
\* bound: pages after which the upstream has nothing left and serves the
\* empty page
MaxPages == 3

\* the item the upstream holds at a position: a market object or something
\* that is not an object
Item(pos, isObject) == IF isObject THEN DictV([id |-> NumV(pos)]) ELSE StrV("junk")

\* the pages the upstream may serve for an offset
Batches(off) ==
    {[j \in 1..Len(shape) |-> Item(off + j, shape[j])] :
        shape \in SeqsUpTo(BOOLEAN, MaxBatch)}

\* what http_get hands back to fetch_markets
PageResponses(off) ==
    {Raised, Body(DictV([error |-> StrV("e")]))}
    \cup {Body(ListV(b)) : b \in Batches(off)}

\* `m for m in batch if isinstance(m, dict)`
DictsOf(batch) == SelectSeq(batch, LAMBDA m : m.k = "dict")

\* offset advanced by the objects kept rather than by the items received
NextOffsetKeptOnly(off, batch) == off + Len(DictsOf(batch))

\* `offset += len(batch)`
NextOffset(off, batch) == off + Len(batch)

\* markets[:max_markets]
Take(seq, n) == SubSeq(seq, 1, IF n < Len(seq) THEN n ELSE Len(seq))

PagesInit ==
    /\ max_markets \in 0..MaxWanted
    /\ tagMarkets = <<>>
    /\ offset = 0
    /\ tpc = "loop"
    /\ tResult = <<>>
    /\ tLog = <<>>
    /\ pages = <<>>
    /\ FetchIdle
    /\ HttpIdle
    /\ ExtractIdle
    /\ CollectIdle
    /\ FilterIdle

\* one iteration of the while loop (lines 59-73)
FetchPage(resp) ==
    /\ tpc = "loop"
    /\ Len(tagMarkets) < max_markets
    /\ (resp.kind = "json" /\ resp.body.k = "list" /\ resp.body.items # <<>>)
           => Len(pages) < MaxPages
    /\ LET req == [kind |-> "request", limit |-> PAGE_SIZE, offset |-> offset]
       IN  IF resp.kind = "raise" \/ resp.body.k # "list"
           THEN /\ tpc' = "raised"
                /\ tLog' = Append(tLog, req)
                /\ UNCHANGED <<tagMarkets, offset, pages>>
           ELSE LET batch == resp.body.items
                IN  /\ pages' = Append(pages, batch)
                    /\ IF batch = <<>>
                       THEN /\ tpc' = "exit"
                            /\ tLog' = Append(tLog, req)
                            /\ UNCHANGED <<tagMarkets, offset>>
                       ELSE /\ tagMarkets' = tagMarkets \o DictsOf(batch)
                            /\ offset' = NextOffset(offset, batch)
                            /\ tLog' = tLog \o <<req, [kind |-> "sleep"]>>
                            /\ UNCHANGED tpc
    /\ UNCHANGED <<max_markets, tResult>>
    /\ UNCHANGED <<fvars, hvars, xvars, cvars, mvars>>

\* the loop is left (condition false, or break) and the list is cut and
\* returned (lines 75-77)
ReturnMarkets ==
    /\ \/ tpc = "exit"
       \/ tpc = "loop" /\ Len(tagMarkets) >= max_markets
    /\ tResult' = Take(tagMarkets, max_markets)
    /\ tpc' = "returned"
    /\ UNCHANGED <<max_markets, tagMarkets, offset, tLog, pages>>
    /\ UNCHANGED <<fvars, hvars, xvars, cvars, mvars>>

PagesNext ==
    \/ \E resp \in PageResponses(offset) : FetchPage(resp)
    \/ ReturnMarkets

SpecPages == PagesInit /\ [][PagesNext]_vars

\* the upstream answers every request and sleeps end
FairSpecPages == SpecPages /\ WF_vars(PagesNext)

-----------------------------------------------------------------------------
(* Claims about fetch_markets (checked under FairSpecPages)                 *)

RECURSIVE Flatten(_)
Flatten(ps) == IF ps = <<>> THEN <<>> ELSE Head(ps) \o Flatten(Tail(ps))

PageRequests == SelectSeq(tLog, LAMBDA e : e.kind = "request")

\* the objects received in the first n pages
ObjectsIn(n) == DictsOf(Flatten(SubSeq(pages, 1, n)))

PaginationInv ==
    /\ \A q \in 1..Len(PageRequests) :
           /\ q - 1 <= Len(pages)
           /\ PageRequests[q].offset = Len(Flatten(SubSeq(pages, 1, q - 1)))
           /\ Len(ObjectsIn(q - 1)) < max_markets
           /\ \A h \in 1..(q - 1) : pages[h] # <<>>
    /\ tpc = "returned" =>
           /\ Len(tResult) <= max_markets
           /\ \A j \in 1..Len(tResult) : tResult[j].k = "dict"
           /\ tResult = Take(ObjectsIn(Len(pages)), max_markets)
           /\ Len(PageRequests) = Len(pages)
           /\ \/ Len(ObjectsIn(Len(pages))) >= max_markets
              \/ pages # <<>> /\ pages[Len(pages)] = <<>>

PagesFinished == tpc \in {"returned", "raised"}

\* C27: fetch_markets returns at most max_markets records, all of them JSON
\* objects, in upstream order; each page request carries as offset the
\* number of items received in the earlier pages; no page is requested
\* after an empty page or once max_markets objects are collected; and the
\* call terminates when the upstream eventually serves an empty page.
PaginationBound == []PaginationInv /\ <>PagesFinished

PaginationBoundWitness ==
    /\ tpc = "returned"
    /\ max_markets = 3
    /\ Len(pages) = 3
    /\ pages[1] = <<StrV("junk"), DictV([id |-> NumV(2)])>>
    /\ pages[2] = <<DictV([id |-> NumV(3)]), StrV("junk")>>
    /\ pages[3] = <<DictV([id |-> NumV(5)]), DictV([id |-> NumV(6)])>>
    /\ PageRequests[3].offset = 4
    /\ tResult = <<DictV([id |-> NumV(2)]), DictV([id |-> NumV(3)]), DictV([id |-> NumV(5)])>>

-----------------------------------------------------------------------------
(* Claims about the rows main leaves out (checked under SpecCollect)        *)

\* the j-th input row has neither a market id nor a condition id
NoIdentifier(j) ==
    /\ parse_market_row(all_rows[j]).market_id.k = "none"
    /\ parse_market_row(all_rows[j]).condition_id.k = "none"

SelectedKeys == {filtered_selected[h].key : h \in 1..Len(filtered_selected)}

\* C28: a row with neither a market id nor a condition id is skipped, with
\* and without yes_only: no request is made for it, it gets no entry among
\* the selected markets (hence no row of the markets output), and no price
\* history is requested for it.
RowsWithoutIdsSkipped ==
    \A j \in 1..Len(resolved) :
        NoIdentifier(j) =>
            /\ resolved[j].reqs = <<>>
            /\ resolved[j].key \notin SelectedKeys
            /\ \A q \in 1..Len(cReqs) :
                   cReqs[q].kind = "prices" => cReqs[q].key # resolved[j].key

\* C29: with yes_only, every row of the markets output has a non-empty
\* clobTokenIds list.
YesOnlyOutputHasTokens ==
    cYesOnly => \A j \in 1..Len(markets_file) : markets_file[j].clobTokenIds # <<>>

-----------------------------------------------------------------------------
(* Claims about the order of main's writes (checked under SpecCollect)      *)

\* C30: the markets file is written before the first price-history request
\* is issued; the price rows are written only once the history of every
\* token of every selected market has been fetched; so when a price-history
\* request ends in retry exhaustion the run ends with the markets file
\* written, no price row of the run written and the prices file that was
\* there left as it was.
WriteOrdering ==
    /\ PriceRequests # <<>> =>
           /\ cpc \in {"prices", "failed", "done"}
           /\ markets_file = MarketRowsOf(filtered_selected, token_ids_by_key)
    /\ cpc \in {"idle", "resolve"} => markets_file = <<>>
    /\ cpc # "done" => prices_file = pricesAtStart
    /\ cpc = "done" =>
           /\ pm = Len(filtered_selected)
           /\ prices_file = price_rows
           /\ Len(price_rows) = Len(PriceRequests)
           /\ \A h \in 1..Len(filtered_selected) :
                  \A t \in 1..Len(TokensOf(token_ids_by_key, filtered_selected[h].key)) :
                      \E q \in 1..Len(price_rows) :
                          price_rows[q].token_id =
                              TokensOf(token_ids_by_key, filtered_selected[h].key)[t]
    /\ cpc = "failed" =>
           /\ markets_file = MarketRowsOf(filtered_selected, token_ids_by_key)
           /\ markets_file # <<>>
           /\ prices_file = pricesAtStart
           /\ \A q \in 1..Len(price_rows) :
                  \A h \in 1..Len(prices_file) : prices_file[h] # price_rows[q]

WriteOrderingWitness ==
    /\ cpc = "failed"
    /\ Len(markets_file) = 2
    /\ Len(PriceRequests) = 3
    /\ Len(price_rows) = 2
    /\ prices_file = <<OldPriceRow>>

====
